---- MODULE Spec2Model ----
(***************************************************************************)
(* A model of scripts/undulating_fin_2d.py: the D2Q9 lattice Boltzmann     *)
(* step collide_and_stream, the fin rasteriser update_fin_mask, the module *)
(* initialisation and the animation callback update.                       *)
(*                                                                         *)
(* Numbers.  The script computes in float64.  The model computes in exact  *)
(* rationals <<n, d>> (d > 0, lowest terms) extended with the three IEEE   *)
(* specials the script can produce by dividing by a zero density:          *)
(* NaN = <<0,0>>, +Inf = <<1,0>>, -Inf = <<-1,0>>.  Rounding error of the  *)
(* finite float operations and the sign of zero are not modelled.          *)
(*                                                                         *)
(* Size.  The lattice (nx, nz), the run length (timesteps, plot_every) and *)
(* the fin's sizes (H_fin, A_fin, z_root, x_start) are the script's        *)
(* parameters of lines 9-32 scaled down so that the lattice can be         *)
(* enumerated.  lambda_fin and wave_period (1 / f_wave) are 4, so that the *)
(* phase of the travelling wave is always a multiple of a quarter turn and *)
(* its sine is exactly 0, 1, 0 or -1.                                      *)
(***************************************************************************)
EXTENDS Integers, Sequences, FiniteSets, TLC

VARIABLES
    cfg,          \* the parameters a user may edit: omega, H_fin, x_start, x_end
    pc,           \* position of the script: "params", "ready", "crashed"
    f,            \* populations f[i][z][x]
    rho, ux, uz,  \* macroscopic fields [z][x]
    solid_static, \* static wall mask [z][x]
    fin_mask,     \* fin mask [z][x]
    frame, k,     \* update(frame): the frame and the index of its inner loop
    speed2,       \* the data of the last snapshot: ux^2 + uz^2 (speed squared)
    shown,        \* number of snapshots handed to the image
    steps,        \* number of completed calls of collide_and_stream
    last,         \* record of the last call of collide_and_stream (history)
    lastT,        \* argument of the last call of update_fin_mask, -1 before any
    maskAt,       \* history: the mask the first call for each t left
    finIn,        \* history: the mask the last call of update_fin_mask found
    again         \* history: the last call's t had been called before

vars == <<cfg, pc, f, rho, ux, uz, solid_static, fin_mask, frame, k, speed2,
          shown, steps, last, lastT, maskAt, finIn, again>>

----------------------------------------------------------------------------
(* Parameters, lines 9-32 *)

nx == 4
nz == 4
timesteps == 2
plot_every == 2
omega == <<17, 10>>
H_fin == 2
A_fin == 1
lambda_fin == 4
wave_period == 4
z_root == 0
x_start == 1
x_end == nx - 1

Rows == 0 .. nz - 1
Cols == 0 .. nx - 1
Dirs == 0 .. 8

----------------------------------------------------------------------------
(* Extended rational arithmetic standing for float64 *)

Abs(n) == IF n < 0 THEN -n ELSE n

\* the array g with every entry computed (an array is a value, not a formula)
Array(g) == IF g = g THEN g ELSE g

RECURSIVE GCD(_, _)
GCD(a, b) == IF b = 0 THEN a ELSE GCD(b, a % b)

Norm(n, d) ==
    LET g == GCD(Abs(n), Abs(d))
        s == IF d < 0 THEN -1 ELSE 1
    IN  <<s * (n \div g), s * (d \div g)>>

R(n) == <<n, 1>>
NaN == <<0, 0>>
PInf == <<1, 0>>
NInf == <<-1, 0>>

IsFinite(a) == a[2] # 0
Sgn(a) == IF a[1] > 0 THEN 1 ELSE IF a[1] < 0 THEN -1 ELSE 0

Add(a, b) ==
    IF a[2] # 0 /\ b[2] # 0
    THEN LET g == GCD(a[2], b[2])
         IN  Norm(a[1] * (b[2] \div g) + b[1] * (a[2] \div g), (a[2] \div g) * b[2])
    ELSE IF a = NaN \/ b = NaN THEN NaN
    ELSE IF a[2] = 0 /\ b[2] = 0 THEN (IF a = b THEN a ELSE NaN)
    ELSE IF a[2] = 0 THEN a ELSE b

Neg(a) == <<-a[1], a[2]>>
Sub(a, b) == Add(a, Neg(b))

Mul(a, b) ==
    IF a[2] # 0 /\ b[2] # 0
    THEN LET g1 == GCD(Abs(a[1]), b[2])
             g2 == GCD(Abs(b[1]), a[2])
         IN  Norm((a[1] \div g1) * (b[1] \div g2), (a[2] \div g2) * (b[2] \div g1))
    ELSE IF a = NaN \/ b = NaN THEN NaN
    ELSE IF a[1] = 0 \/ b[1] = 0 THEN NaN
    ELSE IF Sgn(a) = Sgn(b) THEN PInf ELSE NInf

\* numpy true division: x/0 is +-inf, 0/0 is nan, with a warning and no exception
Div(a, b) ==
    IF a = NaN \/ b = NaN THEN NaN
    ELSE IF b[2] = 0 THEN (IF a[2] = 0 THEN NaN ELSE R(0))
    ELSE IF b[1] = 0 THEN (IF a[1] = 0 THEN NaN ELSE IF a[1] > 0 THEN PInf ELSE NInf)
    ELSE IF a[2] = 0 THEN (IF Sgn(a) = Sgn(b) THEN PInf ELSE NInf)
    ELSE Mul(a, Norm(b[2], b[1]))

Sq(a) == Mul(a, a)

\* comparisons of finite rationals
Le(a, b) == a[1] * b[2] <= b[1] * a[2]
Lt(a, b) == a[1] * b[2] < b[1] * a[2]

----------------------------------------------------------------------------
(* D2Q9 lattice, lines 39-58 *)

\* c[i] = <<c_x, c_z>>
c ==
    [i \in Dirs |->
        <<  <<0, 0>>, <<1, 0>>, <<0, 1>>, <<-1, 0>>, <<0, -1>>,
            <<1, 1>>, <<-1, 1>>, <<-1, -1>>, <<1, -1>>  >>[i + 1]]

w ==
    [i \in Dirs |->
        <<  <<4, 9>>, <<1, 9>>, <<1, 9>>, <<1, 9>>, <<1, 9>>,
            <<1, 36>>, <<1, 36>>, <<1, 36>>, <<1, 36>>  >>[i + 1]]

opposite == [i \in Dirs |-> <<0, 3, 4, 1, 2, 7, 8, 5, 6>>[i + 1]]

----------------------------------------------------------------------------
(* Equilibrium, lines 70-83 *)

\* the equilibrium without the -1.5 usq term of line 82
feqNodeNoUsq(i, r, vx, vz) ==
    LET cu == Mul(R(3), Add(Mul(R(c[i][1]), vx), Mul(R(c[i][2]), vz)))
    IN  Mul(Mul(w[i], r), Add(Add(R(1), cu), Mul(<<1, 2>>, Sq(cu))))

feqNode(i, r, vx, vz) ==
    LET usq == Add(Sq(vx), Sq(vz))
        cu  == Mul(R(3), Add(Mul(R(c[i][1]), vx), Mul(R(c[i][2]), vz)))
        br  == Sub(Add(Add(R(1), cu), Mul(<<1, 2>>, Sq(cu))), Mul(<<3, 2>>, usq))
    IN  Mul(Mul(w[i], r), br)

equilibrium(r, vx, vz) ==
    [i \in Dirs |-> [z \in Rows |-> [x \in Cols |->
        feqNode(i, r[z][x], vx[z][x], vz[z][x])]]]

----------------------------------------------------------------------------
(* The phases of collide_and_stream, lines 179-211 *)

\* a collision that adds omega feq to f and does not take omega f away
CollideNoRelax(g, r, vx, vz, om) ==
    LET feq == equilibrium(r, vx, vz)
    IN  [i \in Dirs |-> [z \in Rows |-> [x \in Cols |->
            Add(g[i][z][x], Mul(om, feq[i][z][x]))]]]

\* 2) collision (BGK), lines 180-181
Collide(g, r, vx, vz, om) ==
    LET feq == equilibrium(r, vx, vz)
    IN  [i \in Dirs |-> [z \in Rows |-> [x \in Cols |->
            Add(Mul(Sub(R(1), om), g[i][z][x]), Mul(om, feq[i][z][x]))]]]

\* np.roll of a vector a of length n by s: the last s entries move to the front
RollVec(a, n, s) ==
    LET kk == s % n
    IN  [j \in 0 .. n - 1 |-> IF j < kk THEN a[n - kk + j] ELSE a[j - kk]]

\* streaming with the two components of c_i exchanged
StreamDirSwapped(g, i) ==
    RollVec([z \in Rows |-> RollVec(g[z], nx, c[i][2])], nz, c[i][1])

\* 3) streaming, lines 185-187: roll along x (axis 1) by c_x, then along z by c_z
StreamDir(g, i) ==
    RollVec([z \in Rows |-> RollVec(g[z], nx, c[i][1])], nz, c[i][2])

Stream(g) == [i \in Dirs |-> StreamDir(g[i], i)]

\* a swap without the temporaries fi and fip of lines 194-195
SwapPairNoTemp(p, i) == [p EXCEPT ![i] = p[opposite[i]], ![opposite[i]] = p[opposite[i]]]

\* 4) bounce-back, lines 192-197.  SwapPair is one iteration of the loop at one
\* solid node whose nine populations are p; the loop runs i = 0, ..., 8.
SwapPair(p, i) == [p EXCEPT ![i] = p[opposite[i]], ![opposite[i]] = p[i]]

RECURSIVE BBLoop(_, _, _)
BBLoop(p, i, n) == IF i >= n THEN p ELSE BBLoop(SwapPair(p, i), i + 1, n)

NodePops(g, z, x) == [i \in Dirs |-> g[i][z][x]]

BounceBack(g, sol) ==
    [i \in Dirs |-> [z \in Rows |-> [x \in Cols |->
        IF sol[z][x] THEN BBLoop(NodePops(g, z, x), 0, 9)[i] ELSE g[i][z][x]]]]

\* the pairs (fi, fip) the i-th iteration reads at the solid nodes
BBReads(g, sol) ==
    [i \in Dirs |-> [z \in Rows |-> [x \in Cols |->
        IF sol[z][x]
        THEN LET p == BBLoop(NodePops(g, z, x), 0, i)
             IN  <<p[i], p[opposite[i]]>>
        ELSE <<>>]]]

\* 5) macroscopic fields, lines 200-211
RECURSIVE SumTo(_, _, _, _)
SumTo(g, z, x, i) ==
    IF i < 0 THEN R(0) ELSE Add(SumTo(g, z, x, i - 1), g[i][z][x])

RECURSIVE MomTo(_, _, _, _, _)
MomTo(g, z, x, a, i) ==
    IF i < 0 THEN R(0)
    ELSE Add(MomTo(g, z, x, a, i - 1), Mul(R(c[i][a]), g[i][z][x]))

Density(g) == [z \in Rows |-> [x \in Cols |-> SumTo(g, z, x, 8)]]

\* the velocities of lines 206-207 without the zeroing of lines 210-211
VelocityNoZero(g, r, sol, a) ==
    [z \in Rows |-> [x \in Cols |-> Div(MomTo(g, z, x, a, 8), r[z][x])]]

Velocity(g, r, sol, a) ==
    [z \in Rows |-> [x \in Cols |->
        IF sol[z][x] THEN R(0) ELSE Div(MomTo(g, z, x, a, 8), r[z][x])]]

Union(m1, m2) == [z \in Rows |-> [x \in Cols |-> m1[z][x] \/ m2[z][x]]]

----------------------------------------------------------------------------
(* Static walls and the fin mask, lines 92-162 *)

AllFalse == [z \in Rows |-> [x \in Cols |-> FALSE]]

Walls == [z \in Rows |-> [x \in Cols |-> z = 0 \/ z = nz - 1]]

\* xs[x_start:x_end], line 122: the active columns, in order (a slice clamps)
ActiveCols(cf) ==
    LET lo == IF cf.x_start > nx THEN nx ELSE cf.x_start
        hi == IF cf.x_end > nx THEN nx ELSE cf.x_end
        n  == IF hi > lo THEN hi - lo ELSE 0
    IN  [idx \in 0 .. n - 1 |-> lo + idx]

NumActive(cf) == Cardinality(DOMAIN ActiveCols(cf))

\* sin(2 pi turns) for a phase that is a whole number of quarter turns
SinTurns(turns) ==
    LET q == Mul(R(4), turns)
    IN  R(<<0, 1, 0, -1>>[(q[1] % 4) + 1])

\* lines 125-126
z_center(cf, t) ==
    [idx \in DOMAIN ActiveCols(cf) |->
        LET turns == Sub(Mul(R(ActiveCols(cf)[idx] - cf.x_start), <<1, lambda_fin>>),
                         Mul(R(t), <<1, wave_period>>))
        IN  Add(Add(R(z_root), Mul(<<1, 2>>, R(cf.H_fin))),
                Mul(R(A_fin), SinTurns(turns)))]

\* lines 129-132, for at least two active columns
dzdx(cf, t) ==
    LET zc == z_center(cf, t)
        n  == NumActive(cf)
    IN  [idx \in DOMAIN zc |->
            IF idx = n - 1 THEN Sub(zc[n - 1], zc[n - 2])
            ELSE IF idx = 0 THEN Sub(zc[1], zc[0])
            ELSE Mul(<<1, 2>>, Sub(zc[idx + 1], zc[idx - 1]))]

\* lines 137-138
n_samples(cf) == IF 2 * cf.H_fin > 6 THEN 2 * cf.H_fin ELSE 6

s_vals(cf) ==
    [j \in 0 .. n_samples(cf) - 1 |->
        Add(Mul(<<-1, 2>>, R(cf.H_fin)),
            Mul(R(j), Mul(R(cf.H_fin), <<1, n_samples(cf) - 1>>)))]

\* v >= b and v <= b for the real number v = p + sg * sqrt(q2), decided exactly
SurdGe(p, sg, q2, b) ==
    LET e == Sub(b, p)
    IN  IF sg >= 0 THEN Le(e, R(0)) \/ Le(Sq(e), IF sg = 0 THEN R(0) ELSE q2)
        ELSE Le(e, R(0)) /\ Le(q2, Sq(e))

SurdLe(p, sg, q2, b) ==
    LET e == Sub(b, p)
    IN  IF sg >= 0 THEN Le(R(0), e) /\ Le(IF sg = 0 THEN R(0) ELSE q2, Sq(e))
        ELSE Le(R(0), e) \/ Le(Sq(e), q2)

\* the integers within reach of v: v lies between p - q2 - 1 and p + q2 + 1
RoundRange(p, q2) ==
    LET reach == (q2[1] \div q2[2]) + 2
        base  == p[1] \div p[2]
    IN  (base - reach) .. (base + reach + 1)

\* int(round(v)), lines 159-160: the nearest integer, a tie going to the even one
RoundSurd(p, sg, q2) ==
    CHOOSE n \in RoundRange(p, q2) :
        LET lo == Sub(R(n), <<1, 2>>)
            hi == Add(R(n), <<1, 2>>)
            geLo == SurdGe(p, sg, q2, lo)
            leLo == SurdLe(p, sg, q2, lo)
            geHi == SurdGe(p, sg, q2, hi)
            leHi == SurdLe(p, sg, q2, hi)
        IN  \/ ~leLo /\ ~geHi
            \/ geLo /\ leLo /\ n % 2 = 0
            \/ geHi /\ leHi /\ n % 2 = 0

\* lines 145-160: the node <<iz, ix>> of the sample s on the normal at column
\* x_c, centre z_c, slope d.  The unit normal is (d, -1) / sqrt(1 + d^2).
SampleNode(x_c, z_c, d, s) ==
    LET n2 == Add(R(1), Sq(d))
        ox == Div(Mul(Sq(d), Sq(s)), n2)
        oz == Div(Sq(s), n2)
    IN  <<RoundSurd(z_c, 0 - Sgn(s), oz), RoundSurd(R(x_c), Sgn(d) * Sgn(s), ox)>>

\* line 161
InGrid(ix, iz) == ix \in Cols /\ iz \in Rows

InInterior(ix, iz) == 0 < ix /\ ix < nx - 1 /\ 1 <= iz /\ iz < nz - 1

\* the nodes the samples of lines 140-160 round to, before the test of line 161
Samples(cf, t) ==
    LET xs_local == Array(ActiveCols(cf))
        zc       == Array(z_center(cf, t))
        dz       == Array(dzdx(cf, t))
        sv       == Array(s_vals(cf))
    IN  { SampleNode(xs_local[idx], zc[idx], dz[idx], sv[j]) :
            idx \in DOMAIN xs_local, j \in DOMAIN sv }

\* line 118
KeepMask(m) == m

ClearMask(m) == [z \in Rows |-> [x \in Cols |-> FALSE]]

\* update_fin_mask(t), lines 116-162, on the mask m
update_fin_mask(m, cf, t) ==
    LET cleared == ClearMask(m)
        hit == { n \in Samples(cf, t) : InInterior(n[2], n[1]) }
    IN  Array([z \in Rows |-> [x \in Cols |-> cleared[z][x] \/ <<z, x>> \in hit]])

----------------------------------------------------------------------------
(* Module initialisation, lines 64-97 *)

Shipped == [omega |-> omega, H_fin |-> H_fin, x_start |-> x_start, x_end |-> x_end]

Field(v) == [z \in Rows |-> [x \in Cols |-> v]]

Zeros9 == [i \in Dirs |-> Field(R(0))]

\* line 86: f[:] = equilibrium(rho, ux, uz) with rho = 1, ux = uz = 0
RestF == equilibrium(Field(R(1)), Field(R(0)), Field(R(0)))

NoCall(g, m) ==
    [t |-> -1, fIn |-> g, rhoIn |-> Field(R(0)), uxIn |-> Field(R(0)),
     uzIn |-> Field(R(0)), fColl |-> g, fStr |-> g,
     reads |-> BBReads(g, AllFalse), solid |-> m]

NoMasks == [t \in {} |-> AllFalse]

\* the state after line 97, for populations g with macroscopic fields r, vx, vz
Ready(cf, g, r, vx, vz) ==
    /\ cfg = cf
    /\ pc = "ready"
    /\ f = g
    /\ rho = r
    /\ ux = vx
    /\ uz = vz
    /\ solid_static = Walls
    /\ fin_mask = AllFalse
    /\ frame = 0
    /\ k = 0
    /\ speed2 = Field(R(0))
    /\ shown = 0
    /\ steps = 0
    /\ last = NoCall(g, Walls)
    /\ lastT = -1
    /\ maskAt = NoMasks
    /\ finIn = AllFalse
    /\ again = FALSE

----------------------------------------------------------------------------
(* collide_and_stream(f, rho, ux, uz, t), lines 168-213, called by update *)

NFrames == timesteps \div plot_every

\* The exact arithmetic of the model needs numbers that grow with every step
\* taken from a non-uniform state.  A run is followed while the denominators
\* of the stored velocities are at most MaxDenom.
MaxDenom == 4

Bounded ==
    \A z \in Rows, x \in Cols : ux[z][x][2] <= MaxDenom /\ uz[z][x][2] <= MaxDenom

Record(t, m) ==
    /\ lastT' = t
    /\ finIn' = fin_mask
    /\ again' = (t \in DOMAIN maskAt)
    /\ maskAt' = IF t \in DOMAIN maskAt THEN maskAt ELSE maskAt @@ (t :> m)

collide_and_stream(t) ==
    /\ fin_mask' = update_fin_mask(fin_mask, cfg, t)
    /\ Record(t, fin_mask')
    /\ LET sol   == Array(Union(solid_static, fin_mask'))
           fColl == Array(Collide(f, rho, ux, uz, cfg.omega))
           fStr  == Array(Stream(fColl))
       IN  last' = [t |-> t, fIn |-> f, rhoIn |-> rho, uxIn |-> ux, uzIn |-> uz,
                    fColl |-> fColl, fStr |-> fStr,
                    reads |-> BBReads(fStr, sol), solid |-> sol]
    /\ f' = Array(BounceBack(last'.fStr, last'.solid))
    /\ rho' = Array(Density(f'))
    /\ ux' = Velocity(f', rho', last'.solid, 1)
    /\ uz' = Velocity(f', rho', last'.solid, 2)
    /\ steps' = steps + 1

\* one pass of the loop of update(frame), lines 251-253
Step ==
    /\ pc = "ready"
    /\ frame < NFrames
    /\ k < plot_every
    /\ NumActive(cfg) >= 2
    /\ Bounded
    /\ collide_and_stream(frame * plot_every + k)
    /\ k' = k + 1
    /\ UNCHANGED <<cfg, pc, solid_static, frame, speed2, shown>>

\* with fewer than two active columns z_center[1] of line 131 raises IndexError,
\* after line 118 cleared the mask
StepCrash ==
    /\ pc = "ready"
    /\ frame < NFrames
    /\ k < plot_every
    /\ NumActive(cfg) < 2
    /\ fin_mask' = ClearMask(fin_mask)
    /\ pc' = "crashed"
    /\ UNCHANGED <<cfg, f, rho, ux, uz, solid_static, frame, k, speed2, shown,
                   steps, last, lastT, maskAt, finIn, again>>

\* the end of update(frame), lines 255-259
Snapshot ==
    /\ pc = "ready"
    /\ frame < NFrames
    /\ k = plot_every
    /\ Bounded
    /\ speed2' = [z \in Rows |-> [x \in Cols |-> Add(Sq(ux[z][x]), Sq(uz[z][x]))]]
    /\ shown' = shown + 1
    /\ frame' = frame + 1
    /\ k' = 0
    /\ UNCHANGED <<cfg, pc, f, rho, ux, uz, solid_static, fin_mask, steps, last,
                   lastT, maskAt, finIn, again>>

----------------------------------------------------------------------------
(* Spec: collide_and_stream under the shipped parameters, on the script's    *)
(* rest state and on inputs that differ from a uniform state at one node     *)

Nodes == Rows \X Cols

Kinds == {"rest", "dense", "vacuum", "east"}

Backgrounds == {"rest", "vacuum"}

KindPops(kind) ==
    [i \in Dirs |->
        CASE kind = "rest"   -> RestF[i][0][0]
          [] kind = "dense"  -> Mul(R(2), w[i])
          [] kind = "vacuum" -> R(0)
          [] kind = "east"   -> IF i = 1 THEN Add(w[i], <<1, 3>>) ELSE w[i]]

InputF(bg, kind, node) ==
    [i \in Dirs |-> [z \in Rows |-> [x \in Cols |->
        IF <<z, x>> = node THEN KindPops(kind)[i] ELSE KindPops(bg)[i]]]]

\* stored fields that agree with the populations: rho = sum f, rho u = sum c f,
\* u = 0 on the walls and where rho = 0
InputU(g, a) ==
    [z \in Rows |-> [x \in Cols |->
        IF Walls[z][x] \/ SumTo(g, z, x, 8) = R(0) THEN R(0)
        ELSE Div(MomTo(g, z, x, a, 8), SumTo(g, z, x, 8))]]

Init ==
    \E bg \in Backgrounds, kind \in Kinds, node \in Nodes :
        LET g == InputF(bg, kind, node)
        IN  Ready(Shipped, g, Density(g), InputU(g, 1), InputU(g, 2))

Next == Step \/ Snapshot

Spec == Init /\ [][Next]_vars

----------------------------------------------------------------------------
(* SpecFin: update_fin_mask called for any times in any order, from the      *)
(* script's initial state                                                    *)

MaxFinT == 4

FinTimes == 0 .. MaxFinT

InitFin == Ready(Shipped, RestF, Field(R(1)), Field(R(0)), Field(R(0)))

CallFin ==
    \E t \in FinTimes :
        /\ pc = "ready"
        /\ NumActive(cfg) >= 2
        /\ fin_mask' = update_fin_mask(fin_mask, cfg, t)
        /\ Record(t, fin_mask')
        /\ UNCHANGED <<cfg, pc, f, rho, ux, uz, solid_static, frame, k, speed2,
                       shown, steps, last>>

NextFin == CallFin

SpecFin == InitFin /\ [][NextFin]_vars

----------------------------------------------------------------------------
(* SpecCfg: the script run from its first line with edited parameters        *)

Omegas == { <<1, 2>>, R(1), omega, R(2) }

Thicknesses == { -1, 0, H_fin }

Spans == { <<x_start, x_end>>, <<x_start + 1, x_start + 1>>, <<x_end, x_start>> }

Configs ==
    { [omega |-> om, H_fin |-> h, x_start |-> sp[1], x_end |-> sp[2]] :
        om \in Omegas, h \in Thicknesses, sp \in Spans }

\* the configurations section 7 of the specification calls invalid
Invalid(cf) ==
    \/ ~(Lt(R(1), cf.omega) /\ Lt(cf.omega, R(2)))
    \/ cf.H_fin <= 0
    \/ cf.x_start >= cf.x_end
    \/ nz < 3

\* the state after line 32: parameters set, no array built yet
InitCfg ==
    /\ cfg \in Configs
    /\ pc = "params"
    /\ f = Zeros9
    /\ rho = Field(R(0))
    /\ ux = Field(R(0))
    /\ uz = Field(R(0))
    /\ solid_static = AllFalse
    /\ fin_mask = AllFalse
    /\ frame = 0
    /\ k = 0
    /\ speed2 = Field(R(0))
    /\ shown = 0
    /\ steps = 0
    /\ last = NoCall(Zeros9, AllFalse)
    /\ lastT = -1
    /\ maskAt = NoMasks
    /\ finIn = AllFalse
    /\ again = FALSE

\* lines 64-97; no line of them reads omega, H_fin, x_start or x_end
ModuleInit ==
    /\ pc = "params"
    /\ rho' = Field(R(1))
    /\ ux' = Field(R(0))
    /\ uz' = Field(R(0))
    /\ f' = Array(equilibrium(rho', ux', uz'))
    /\ solid_static' = Walls
    /\ fin_mask' = AllFalse
    /\ last' = NoCall(f', Walls)
    /\ pc' = "ready"
    /\ UNCHANGED <<cfg, frame, k, speed2, shown, steps, lastT, maskAt, finIn, again>>

NextCfg == ModuleInit \/ Step \/ StepCrash \/ Snapshot

SpecCfg == InitCfg /\ [][NextCfg]_vars

----------------------------------------------------------------------------
(* Notions the properties are stated with *)

FiniteF(g) == \A i \in Dirs, z \in Rows, x \in Cols : IsFinite(g[i][z][x])

FiniteField(v) == \A z \in Rows, x \in Cols : IsFinite(v[z][x])

NodeSum(g, z, x) == SumTo(g, z, x, 8)

\* the sum of all populations over the whole lattice
RECURSIVE TotalTo(_, _)
TotalTo(g, n) ==
    IF n < 0 THEN R(0)
    ELSE Add(TotalTo(g, n - 1), NodeSum(g, n \div nx, n % nx))

Total(g) == TotalTo(g, nz * nx - 1)

\* the node a population of direction i at <<z, x>> came from in a periodic shift
From(i, z, x) == <<(z - c[i][2]) % nz, (x - c[i][1]) % nx>>

Shifted(g, h) ==
    \A i \in Dirs, z \in Rows, x \in Cols :
        h[i][z][x] = g[i][From(i, z, x)[1]][From(i, z, x)[2]]

\* the input of the last step: stored density equal to the sum of the
\* populations, every stored number finite
ConsistentIn ==
    /\ last.rhoIn = Density(last.fIn)
    /\ FiniteF(last.fIn)
    /\ FiniteField(last.uxIn)
    /\ FiniteField(last.uzIn)

\* after a step: a density that is zero, negative or not finite, or a velocity
\* that is not finite
Unstable ==
    /\ steps >= 1
    /\ \E z \in Rows, x \in Cols :
        \/ ~IsFinite(rho[z][x])
        \/ rho[z][x][1] <= 0
        \/ ~IsFinite(ux[z][x])
        \/ ~IsFinite(uz[z][x])

----------------------------------------------------------------------------
(* C1.  After update_fin_mask(t), whatever t and whatever the mask held     *)
(* before, no cell of the fin mask is set in row 0, in row nz-1, in column  *)
(* 0 or in column nx-1, so the fin mask never overlaps the wall rows.       *)
C1_FinMaskAvoidsWalls ==
    \A z \in Rows, x \in Cols :
        fin_mask[z][x] =>
            /\ z # 0 /\ z # nz - 1 /\ x # 0 /\ x # nx - 1
            /\ ~solid_static[z][x]

\* a call that set a cell and had a sample on a wall row or an edge column
C1_Witness ==
    /\ lastT >= 0
    /\ \E z \in Rows, x \in Cols : fin_mask[z][x]
    /\ \E n \in Samples(cfg, lastT) :
        /\ n[1] \in Rows /\ n[2] \in Cols
        /\ (n[1] \in {0, nz - 1} \/ n[2] \in {0, nx - 1})

(* C2.  The bounce-back phase swaps opposite populations at the solid       *)
(* nodes: after the phase f_i at a solid node is the f_opposite(i) the node *)
(* held after streaming; at the other nodes the populations are unchanged.  *)
C2_BounceBackSwaps ==
    steps >= 1 =>
        \A i \in Dirs, z \in Rows, x \in Cols :
            f[i][z][x] = IF last.solid[z][x] THEN last.fStr[opposite[i]][z][x]
                         ELSE last.fStr[i][z][x]

(* C3.  Once a step has left a density that is zero, negative or not        *)
(* finite, or a velocity that is not finite, the run halts: no later step   *)
(* runs and no later snapshot is produced.                                  *)
C3_HaltsOnInstability ==
    [][Unstable => (steps' = steps /\ shown' = shown)]_vars

(* C4, as claimed.  Collision and streaming (phases 2 and 3, the whole step *)
(* where no node is solid) leave the sum of the nine populations unchanged  *)
(* at every node, for an input whose stored density is that sum.            *)
C4_NodeMassUnchanged ==
    (steps >= 1 /\ ConsistentIn) =>
        \A z \in Rows, x \in Cols :
            NodeSum(last.fStr, z, x) = NodeSum(last.fIn, z, x)

(* C4, amended.  For a finite input whose stored density is the sum of its  *)
(* populations, collision leaves the sum of the nine populations unchanged  *)
(* at every node, and collision, streaming and bounce-back leave the sum of *)
(* all populations over the whole lattice unchanged.                        *)
C4_TotalMassUnchanged ==
    (steps >= 1 /\ ConsistentIn) =>
        /\ \A z \in Rows, x \in Cols :
            NodeSum(last.fColl, z, x) = NodeSum(last.fIn, z, x)
        /\ Total(last.fStr) = Total(last.fIn)
        /\ Total(f) = Total(last.fIn)

\* a step from a consistent input with a moving node, after which streaming
\* has changed the sum at some node
C4_Witness ==
    /\ steps >= 1
    /\ ConsistentIn
    /\ \E z \in Rows, x \in Cols : last.uxIn[z][x] # R(0)
    /\ \E z \in Rows, x \in Cols :
        NodeSum(last.fStr, z, x) # NodeSum(last.fIn, z, x)

C6_RestIsFixedPoint ==
    /\ \A i \in Dirs, z \in Rows, x \in Cols : RestF[i][z][x] = w[i]
    /\ ( /\ steps >= 1
         /\ last.fIn = RestF
         /\ last.rhoIn = Field(R(1))
         /\ last.uxIn = Field(R(0))
         /\ last.uzIn = Field(R(0)) ) =>
            /\ Density(last.fStr) = Field(R(1))
            /\ \A z \in Rows, x \in Cols :
                MomTo(last.fStr, z, x, 1, 8) = R(0) /\ MomTo(last.fStr, z, x, 2, 8) = R(0)
            /\ rho = Field(R(1))
            /\ ux = Field(R(0))
            /\ uz = Field(R(0))

\* the second step from the rest state, with the fin present
C6_Witness ==
    /\ steps = 2
    /\ last.fIn = RestF
    /\ last.rhoIn = Field(R(1))
    /\ fin_mask # AllFalse

(* C7.  The mask update_fin_mask(t) leaves depends on t alone: it is the    *)
(* mask the first call for t left, whatever calls came between, and every   *)
(* cell it holds is one the call for t set.                                 *)
C7_MaskDependsOnlyOnT ==
    lastT >= 0 =>
        /\ fin_mask = maskAt[lastT]
        /\ \A z \in Rows, x \in Cols :
            fin_mask[z][x] => <<z, x>> \in Samples(cfg, lastT)

\* a repeated call for t that found the non-empty mask of another time
C7_Witness ==
    /\ again
    /\ finIn # AllFalse
    /\ finIn # fin_mask

(* C8.  An invalid configuration (omega outside (1,2), H_fin <= 0, x_start  *)
(* >= x_end, a grid without an interior row) is rejected at initialisation: *)
(* no population is initialised or advanced under it.                       *)
C8_InvalidConfigRejected ==
    Invalid(cfg) => (pc = "params" /\ steps = 0)

(* C9.  A step runs geometry, collision, streaming, bounce-back, recovery   *)
(* in this order, each phase on the complete output of the one before:      *)
(* collision on the fields of the previous step, streaming on post-         *)
(* collision values, every bounce-back iteration on the post-streaming pair *)
(* of its node (as streamed or swapped whole, never one old and one new     *)
(* value), recovery on the post-bounce-back populations.                    *)
C9_PhasesInOrder ==
    steps >= 1 =>
        /\ last.solid = Union(solid_static, fin_mask)
        /\ \A i \in Dirs, z \in Rows, x \in Cols :
            last.fColl[i][z][x] =
                Add(Mul(Sub(R(1), cfg.omega), last.fIn[i][z][x]),
                    Mul(cfg.omega, feqNode(i, last.rhoIn[z][x], last.uxIn[z][x],
                                           last.uzIn[z][x])))
        /\ Shifted(last.fColl, last.fStr)
        /\ \A i \in Dirs, z \in Rows, x \in Cols :
            LET a == last.fStr[i][z][x]
                b == last.fStr[opposite[i]][z][x]
            IN  IF last.solid[z][x]
                THEN /\ last.reads[i][z][x] \in { <<a, b>>, <<b, a>> }
                     /\ f[i][z][x] \in {a, b}
                ELSE f[i][z][x] = a
        /\ \A z \in Rows, x \in Cols :
            /\ rho[z][x] = NodeSum(f, z, x)
            /\ ~last.solid[z][x] =>
                /\ ux[z][x] = Div(MomTo(f, z, x, 1, 8), rho[z][x])
                /\ uz[z][x] = Div(MomTo(f, z, x, 2, 8), rho[z][x])

\* a bounce-back iteration that read a pair an earlier iteration had swapped
C9_Witness ==
    /\ steps >= 1
    /\ \E i \in Dirs, z \in Rows, x \in Cols :
        /\ last.solid[z][x]
        /\ last.fStr[i][z][x] # last.fStr[opposite[i]][z][x]
        /\ last.reads[i][z][x] = <<last.fStr[opposite[i]][z][x], last.fStr[i][z][x]>>

(* C10.  After every step ux = uz = 0 at every node of the step's solid     *)
(* set, the static mask joined with the fin mask of the step's t; the set   *)
(* holds rows 0 and nz-1, the static mask being what it was built as.       *)
C10_SolidNodesAtRest ==
    /\ solid_static = Walls
    /\ steps >= 1 =>
        /\ last.solid = Union(solid_static, fin_mask)
        /\ \A z \in Rows, x \in Cols :
            /\ last.solid[z][x] => (ux[z][x] = R(0) /\ uz[z][x] = R(0))
            /\ (z = 0 \/ z = nz - 1) => last.solid[z][x]

\* a fin node whose populations carry momentum
C10_Witness ==
    /\ steps >= 1
    /\ \E z \in Rows, x \in Cols :
        /\ fin_mask[z][x]
        /\ IsFinite(rho[z][x])
        /\ MomTo(f, z, x, 1, 8) # R(0)

====
